---- MODULE Spec2Model ----
(***************************************************************************)
(* Geometry shader generation of VideoCommon/GeometryShaderGen.cpp.        *)
(*                                                                         *)
(* The generated program text is modelled as the sequence of the chunks    *)
(* the generator writes.  A chunk is a run of the written characters cut   *)
(* into string tokens: the literal pieces of a format string and its       *)
(* formatted arguments (an integer argument is formatted with ToString, as *)
(* %d does).  A ShaderCode::Write call writes one chunk, except that every *)
(* brace it writes is a chunk of its own, which cuts the call's characters *)
(* into the chunks before, between and after its braces: the block         *)
(* structure of the text can then be read off the chunks.                  *)
(***************************************************************************)
EXTENDS Integers, Sequences, FiniteSets, TLC

VARIABLES g_ActiveConfig, driver_bugs, uid, enumerated, gen, prev_out,
          avatar, calls, buffers

vars == <<g_ActiveConfig, driver_bugs, uid, enumerated, gen, prev_out,
          avatar, calls, buffers>>

----------------------------------------------------------------------------
(* Bounds of the model *)

\* largest value the caller's texture-generator register takes in the model
\* (one above the 8 the generator is specified for)
MaxXfTexGens == 9

\* largest texture-generator count of a UID that is generated for twice
MaxRegenTexGens == 0

\* the last texture-generator count the enumerator yields (texgens <= 8)
MaxEnumTexGens == 8

----------------------------------------------------------------------------
(* Enumerations *)

\* PrimitiveType, in the order primitives_ogl / primitives_d3d index it
Points == 0
Lines == 1
Triangles == 2
TriangleStrip == 3

PrimitiveType == {Points, Lines, Triangles, TriangleStrip}

\* APIType: the two values the generator names, D3D (its else branch) and a
\* value outside the supported set
APIType == {"OpenGL", "Vulkan", "D3D", "Nothing"}

primitives_ogl == <<"points", "lines", "triangles", "triangles">>
primitives_d3d == <<"point", "line", "triangle", "triangle">>

I_STEREOPARAMS == "cstereo"
I_LINEPTPARAMS == "clinept"
I_TEXOFFSET == "ctexoffset"

Min(a, b) == IF a < b THEN a ELSE b

BoolToInt(b) == IF b THEN 1 ELSE 0

RECURSIVE Flatten(_)
\* the concatenation of a sequence of chunk sequences
Flatten(ss) == IF ss = <<>> THEN <<>> ELSE Head(ss) \o Flatten(Tail(ss))

\* the chunks a C loop "for (i = 0; i < n; ++i) body(i)" writes
ForLoop(n, body(_)) == Flatten([k \in 1..n |-> body(k - 1)])

----------------------------------------------------------------------------
(* Helpers of ShaderGenCommon.h / VertexShaderGen.h the generator calls *)

s_lighting_struct ==
  << <<"struct Light ">>, <<"{">>,
     <<" int4 color; float4 cosatt; float4 distatt; float4 pos; float4 dir; ">>,
     <<"}">>, <<";\n\n">> >>

GetInterpolationQualifier(msaa, ssaa, in_glsl_interface_block, in) ==
  IF ~msaa THEN ""
  ELSE IF ~ssaa THEN "centroid"
  ELSE "sample"

\* "\t%s %s %s" with the index, when the member has one, and ";\n"
DefineOutputMember(qualifier, type, name, var_index) ==
  <<"\t", qualifier, type, name, var_index, ";\n">>

\* the members of the vertex-shader output: position, the two lighting
\* channels, one texture coordinate per texture generator, the clip position,
\* the per-pixel-lighting members and the clip distances
GenerateVSOutputMembers(ApiType, texgens, pixel_lighting, qualifier) ==
     << DefineOutputMember(qualifier, " float4 ", "pos", ""),
        DefineOutputMember(qualifier, " float4 ", "colors_", "0"),
        DefineOutputMember(qualifier, " float4 ", "colors_", "1") >>
  \o ForLoop(texgens, LAMBDA i : << DefineOutputMember(qualifier, " float3 ", "tex", ToString(i)) >>)
  \o << DefineOutputMember(qualifier, " float4 ", "clipPos", "") >>
  \o (IF pixel_lighting
        THEN << DefineOutputMember(qualifier, " float3 ", "Normal", ""),
                DefineOutputMember(qualifier, " float3 ", "WorldPos", "") >>
        ELSE <<>>)
  \o << DefineOutputMember(qualifier, " float ", "clipDist", "0"),
        DefineOutputMember(qualifier, " float ", "clipDist", "1") >>

\* "\t%s.pos = %s.pos;\n" and the like
AssignMember(a, b, name) ==
  <<"\t", a, name, " = ", b, name, ";\n">>

\* one assignment a.m = b.m per member of the vertex-shader output
AssignVSOutputMembers(a, b, texgens, pixel_lighting) ==
     << AssignMember(a, b, ".pos"),
        AssignMember(a, b, ".colors_0"),
        AssignMember(a, b, ".colors_1") >>
  \o ForLoop(texgens, LAMBDA i : << <<"\t", a, ".tex", ToString(i), " = ", b, ".tex", ToString(i), ";\n">> >>)
  \o << AssignMember(a, b, ".clipPos") >>
  \o (IF pixel_lighting
        THEN << AssignMember(a, b, ".Normal"),
                AssignMember(a, b, ".WorldPos") >>
        ELSE <<>>)
  \o << AssignMember(a, b, ".clipDist0"),
        AssignMember(a, b, ".clipDist1") >>

----------------------------------------------------------------------------
(* Globals the generator reads *)

\* DriverDetails::HasBug(DriverDetails::BUG_BROKEN_CLIP_DISTANCE)
HasBug == driver_bugs

IsGL(ApiType) == ApiType = "OpenGL" \/ ApiType = "Vulkan"

\* lines 21-26: geometry_shader_uid_data::IsPassthrough
IsPassthrough(uid_data) ==
  LET stereo == g_ActiveConfig.iStereoMode > 0
      wireframe == g_ActiveConfig.bWireFrame
  IN  uid_data.primitive_type >= Triangles /\ ~stereo /\ ~wireframe

----------------------------------------------------------------------------
(* GenerateGeometryShaderCode and its two static helpers *)

\* locals of GenerateGeometryShaderCode
\* a plausible slip: the count is not capped at the three vertices of a triangle
vertex_in_Uncapped(uid_data) == uid_data.primitive_type + 1

vertex_in(uid_data) == Min(uid_data.primitive_type + 1, 3)

\* a plausible slip: the closing vertex of wireframe is not counted
vertex_out_NoClosing(host_config, uid_data) ==
  IF uid_data.primitive_type = TriangleStrip THEN 3 ELSE 4

vertex_out(host_config, uid_data) ==
  (IF uid_data.primitive_type = TriangleStrip THEN 3 ELSE 4)
    + (IF host_config.wireframe THEN 1 ELSE 0)

\* a plausible slip: the two extra layers of more_layers are not counted
layers_StereoOnly(host_config) ==
  BoolToInt(host_config.stereo) + 1

layers(host_config) ==
  BoolToInt(host_config.more_layers) * 2 + BoolToInt(host_config.stereo) + 1

EmitVertex(host_config, uid_data, vertex, ApiType, wireframe, pixel_lighting, first_vertex) ==
     (IF wireframe /\ first_vertex
        THEN << <<"\tif (i == 0) first = ", vertex, ";\n">> >>
        ELSE <<>>)
  \o (IF ApiType = "OpenGL"
        THEN << <<"\tgl_Position = ", vertex, ".pos;\n">> >>
             \o (IF host_config.backend_depth_clamp
                   THEN << <<"\tgl_ClipDistance[0] = ", vertex, ".clipDist0;\n">>,
                           <<"\tgl_ClipDistance[1] = ", vertex, ".clipDist1;\n">> >>
                   ELSE <<>>)
             \o AssignVSOutputMembers("ps", vertex, uid_data.numTexGens, pixel_lighting)
      ELSE IF ApiType = "Vulkan"
        THEN << <<"\tgl_Position = ", vertex, ".pos;\n">>,
                <<"\tgl_Position.y = -gl_Position.y;\n">> >>
             \o AssignVSOutputMembers("ps", vertex, uid_data.numTexGens, pixel_lighting)
      ELSE << <<"\tps.o = ", vertex, ";\n">> >>)
  \o (IF IsGL(ApiType)
        THEN << <<"\tEmitVertex();\n">> >>
        ELSE << <<"\toutput.Append(ps);\n">> >>)

\* a plausible slip: the strip is ended without the closing vertex
EndPrimitive_NoClosing(host_config, uid_data, ApiType, wireframe, pixel_lighting) ==
  IF IsGL(ApiType)
    THEN << <<"\tEndPrimitive();\n">> >>
    ELSE << <<"\toutput.RestartStrip();\n">> >>

EndPrimitive(host_config, uid_data, ApiType, wireframe, pixel_lighting) ==
     (IF wireframe
        THEN EmitVertex(host_config, uid_data, "first", ApiType, wireframe, pixel_lighting, FALSE)
        ELSE <<>>)
  \o (IF IsGL(ApiType)
        THEN << <<"\tEndPrimitive();\n">> >>
        ELSE << <<"\toutput.RestartStrip();\n">> >>)

\* a plausible slip: the bound is not multiplied by the layers the program
\* emits itself
LayoutParameters_OneLayer(ApiType, host_config, uid_data) ==
  IF IsGL(ApiType)
    THEN IF host_config.backend_gs_instancing
           THEN << <<"layout(", primitives_ogl[uid_data.primitive_type + 1], ", invocations = ",
                     ToString(layers(host_config)), ") in;\n">>,
                   <<"layout(", IF host_config.wireframe THEN "line" ELSE "triangle",
                     "_strip, max_vertices = ",
                     ToString(vertex_out(host_config, uid_data)), ") out;\n">> >>
           ELSE << <<"layout(", primitives_ogl[uid_data.primitive_type + 1], ") in;\n">>,
                   <<"layout(", IF host_config.wireframe THEN "line" ELSE "triangle",
                     "_strip, max_vertices = ",
                     ToString(vertex_out(host_config, uid_data)),
                     ") out;\n">> >>
    ELSE <<>>

\* lines 69-85: the layout parameters of the OpenGL-family dialect
LayoutParameters(ApiType, host_config, uid_data) ==
  IF IsGL(ApiType)
    THEN IF host_config.backend_gs_instancing
           THEN << <<"layout(", primitives_ogl[uid_data.primitive_type + 1], ", invocations = ",
                     ToString(layers(host_config)), ") in;\n">>,
                   <<"layout(", IF host_config.wireframe THEN "line" ELSE "triangle",
                     "_strip, max_vertices = ",
                     ToString(vertex_out(host_config, uid_data)), ") out;\n">> >>
           ELSE << <<"layout(", primitives_ogl[uid_data.primitive_type + 1], ") in;\n">>,
                   <<"layout(", IF host_config.wireframe THEN "line" ELSE "triangle",
                     "_strip, max_vertices = ",
                     ToString(vertex_out(host_config, uid_data) * layers(host_config)),
                     ") out;\n">> >>
    ELSE <<>>

\* lines 87-102: lighting struct, uniform block and the VS_OUTPUT struct
UniformsAndOutputStruct(ApiType, uid_data, pixel_lighting) ==
     s_lighting_struct
  \o (IF IsGL(ApiType)
        THEN << <<"UBO_BINDING(std140, 3) uniform GSBlock ">>, <<"{">>, <<"\n">> >>
        ELSE << <<"cbuffer GSBlock ">>, <<"{">>, <<"\n">> >>)
  \o << <<"\tfloat4 ", I_STEREOPARAMS, ";\n",
          "\tfloat4 ", I_LINEPTPARAMS, ";\n",
          "\tint4 ", I_TEXOFFSET, ";\n">>, <<"}">>, <<";\n">> >>
  \o << <<"struct VS_OUTPUT ">>, <<"{">>, <<"\n">> >>
  \o GenerateVSOutputMembers(ApiType, uid_data.numTexGens, pixel_lighting, "")
  \o << <<"}">>, <<";\n">> >>

\* lines 104-150: the stage interface and the head of main
InterfaceAndMainHead(ApiType, host_config, uid_data, pixel_lighting) ==
  IF IsGL(ApiType)
    THEN (IF host_config.backend_gs_instancing
            THEN << <<"#define InstanceID gl_InvocationID\n">> >>
            ELSE <<>>)
      \o << <<"VARYING_LOCATION(0) in VertexData ">>, <<"{">>, <<"\n">> >>
      \o GenerateVSOutputMembers(ApiType, uid_data.numTexGens, pixel_lighting,
           GetInterpolationQualifier(host_config.msaa, host_config.ssaa, TRUE, TRUE))
      \o << <<"}">>, <<" vs[", ToString(vertex_in(uid_data)), "];\n">> >>
      \o << <<"VARYING_LOCATION(0) out VertexData ">>, <<"{">>, <<"\n">> >>
      \o GenerateVSOutputMembers(ApiType, uid_data.numTexGens, pixel_lighting,
           GetInterpolationQualifier(host_config.msaa, host_config.ssaa, TRUE, FALSE))
      \o (IF host_config.stereo \/ host_config.more_layers
            THEN << <<"\tflat int layer;\n">> >>
            ELSE <<>>)
      \o << <<"}">>, <<" ps;\n">> >>
      \o << <<"void main()\n">>, <<"{">>, <<"\n">> >>
    ELSE << <<"struct VertexData ">>, <<"{">>, <<"\n">> >>
      \o << <<"\tVS_OUTPUT o;\n">> >>
      \o (IF host_config.stereo \/ host_config.more_layers
            THEN << <<"\tuint layer : SV_RenderTargetArrayIndex;\n">> >>
            ELSE <<>>)
      \o << <<"}">>, <<";\n">> >>
      \o (IF host_config.backend_gs_instancing
            THEN << <<"[maxvertexcount(", ToString(vertex_out(host_config, uid_data)),
                      ")]\n[instance(", ToString(layers(host_config)), ")]\n">>,
                    <<"void main(", primitives_d3d[uid_data.primitive_type + 1],
                      " VS_OUTPUT o[", ToString(vertex_in(uid_data)), "], inout ",
                      IF host_config.wireframe THEN "Line" ELSE "Triangle",
                      "Stream<VertexData> output, in uint InstanceID : SV_GSInstanceID)\n">>, <<"{">>, <<"\n">> >>
            ELSE << <<"[maxvertexcount(",
                      ToString(vertex_out(host_config, uid_data) * layers(host_config)),
                      ")]\n">>,
                    <<"void main(", primitives_d3d[uid_data.primitive_type + 1],
                      " VS_OUTPUT o[", ToString(vertex_in(uid_data)), "], inout ",
                      IF host_config.wireframe THEN "Line" ELSE "Triangle",
                      "Stream<VertexData> output)\n">>, <<"{">>, <<"\n">> >>)
      \o << <<"\tVertexData ps;\n">> >>

\* lines 152-199: the primitive-specific setup before the loops
PrimitiveSetup(ApiType, uid_data, pixel_lighting) ==
  IF uid_data.primitive_type = Lines
    THEN (IF IsGL(ApiType)
            THEN << <<"\tVS_OUTPUT start, end;\n">> >>
                 \o AssignVSOutputMembers("start", "vs[0]", uid_data.numTexGens, pixel_lighting)
                 \o AssignVSOutputMembers("end", "vs[1]", uid_data.numTexGens, pixel_lighting)
            ELSE << <<"\tVS_OUTPUT start = o[0];\n">>,
                    <<"\tVS_OUTPUT end = o[1];\n">> >>)
      \o << <<"\tfloat2 offset;\n",
              "\tfloat2 to = abs(end.pos.xy / end.pos.w - start.pos.xy / start.pos.w);\n",
              "\tif (", I_LINEPTPARAMS, ".y * to.y > ", I_LINEPTPARAMS, ".x * to.x) ">>, <<"{">>, <<"\n",
              "\t\toffset = float2(", I_LINEPTPARAMS, ".z / ", I_LINEPTPARAMS, ".x, 0);\n",
              "\t">>, <<"}">>, <<" else ">>, <<"{">>, <<"\n",
              "\t\toffset = float2(0, -", I_LINEPTPARAMS, ".z / ", I_LINEPTPARAMS, ".y);\n",
              "\t">>, <<"}">>, <<"\n">> >>
  ELSE IF uid_data.primitive_type = Points
    THEN (IF IsGL(ApiType)
            THEN << <<"\tVS_OUTPUT center;\n">> >>
                 \o AssignVSOutputMembers("center", "vs[0]", uid_data.numTexGens, pixel_lighting)
            ELSE << <<"\tVS_OUTPUT center = o[0];\n">> >>)
      \o << <<"\tfloat2 offset = float2(", I_LINEPTPARAMS, ".w / ", I_LINEPTPARAMS,
              ".x, -", I_LINEPTPARAMS, ".w / ", I_LINEPTPARAMS, ".y) * center.pos.w;\n">> >>
  ELSE <<>>

\* a plausible slip: the software loop is written whether or not the backend
\* instantiates the shader per layer
LoopHeads_AlwaysLoop(host_config, uid_data) ==
     (IF host_config.stereo \/ host_config.more_layers
        THEN << <<"\tfor (int eye = 0; eye < ", ToString(layers(host_config)),
                  "; ++eye) ">>, <<"{">>, <<"\n">> >>
        ELSE <<>>)
  \o (IF host_config.wireframe
        THEN << <<"\tVS_OUTPUT first;\n">> >>
        ELSE <<>>)
  \o << <<"\tfor (int i = 0; i < ", ToString(vertex_in(uid_data)), "; ++i) ">>, <<"{">>, <<"\n">> >>

\* lines 201-214: the binding of eye, the wireframe 'first' vertex and the
\* head of the loop over the input vertices
LoopHeads(host_config, uid_data) ==
     (IF host_config.stereo \/ host_config.more_layers
        THEN IF host_config.backend_gs_instancing
               THEN << <<"\tint eye = InstanceID;\n">> >>
               ELSE << <<"\tfor (int eye = 0; eye < ", ToString(layers(host_config)),
                         "; ++eye) ">>, <<"{">>, <<"\n">> >>
        ELSE <<>>)
  \o (IF host_config.wireframe
        THEN << <<"\tVS_OUTPUT first;\n">> >>
        ELSE <<>>)
  \o << <<"\tfor (int i = 0; i < ", ToString(vertex_in(uid_data)), "; ++i) ">>, <<"{">>, <<"\n">> >>

\* lines 216-233: the copy of the input vertex i into f
CopyInputVertex(ApiType, host_config, uid_data, pixel_lighting) ==
  IF IsGL(ApiType)
    THEN << <<"\tVS_OUTPUT f;\n">> >>
      \o AssignVSOutputMembers("f", "vs[i]", uid_data.numTexGens, pixel_lighting)
      \o (IF host_config.backend_depth_clamp /\ HasBug
            THEN << <<"\tf.clipDist0 = gl_in[i].gl_ClipDistance[0];\n">>,
                    <<"\tf.clipDist1 = gl_in[i].gl_ClipDistance[1];\n">> >>
            ELSE <<>>)
    ELSE << <<"\tVS_OUTPUT f = o[i];\n">> >>

\* lines 235-263: the selection of the output layer
SelectLayer(ApiType, host_config) ==
  IF host_config.vr
    THEN << <<"\tps.layer = eye;\n">> >>
      \o (IF ApiType = "OpenGL" THEN << <<"\tgl_Layer = eye;\n">> >> ELSE <<>>)
      \o << <<"\tf.clipPos.x += ", I_STEREOPARAMS, "[eye] - ", I_STEREOPARAMS,
              "[eye+2] * f.clipPos.w;\n">>,
            <<"\tf.pos.x += ", I_STEREOPARAMS, "[eye] - ", I_STEREOPARAMS,
              "[eye+2] * f.pos.w;\n">> >>
  ELSE IF host_config.stereo \/ host_config.more_layers
    THEN << <<"\tps.layer = eye;\n">> >>
      \o (IF IsGL(ApiType) THEN << <<"\tgl_Layer = eye;\n">> >> ELSE <<>>)
      \o << <<"\tfloat hoffset = (eye == 0) ? ", I_STEREOPARAMS, ".x : ", I_STEREOPARAMS,
              ".y;\n">>,
            <<"\tf.pos.x += hoffset * (f.pos.w - ", I_STEREOPARAMS, ".z);\n">> >>
  ELSE <<>>

\* a plausible slip: the loop stops one channel early
LinesTexOffset_OneShort(uid_data) ==
  ForLoop(IF uid_data.numTexGens > 0 THEN uid_data.numTexGens - 1 ELSE 0, LAMBDA i :
    << <<"\tif (((", I_TEXOFFSET, "[0] >> ", ToString(i), ") & 0x1) != 0)\n">>,
       <<"\t\tr.tex", ToString(i), ".x += texOffset;\n">> >>)

\* lines 276-280: the guarded nudge of the right end of a line, per channel
LinesTexOffset(uid_data) ==
  ForLoop(uid_data.numTexGens, LAMBDA i :
    << <<"\tif (((", I_TEXOFFSET, "[0] >> ", ToString(i), ") & 0x1) != 0)\n">>,
       <<"\t\tr.tex", ToString(i), ".x += texOffset;\n">> >>)

\* lines 301-308: the guarded nudges of three corners of a point, per channel
PointsTexOffset(uid_data) ==
  ForLoop(uid_data.numTexGens, LAMBDA i :
    << <<"\tif (((", I_TEXOFFSET, "[1] >> ", ToString(i), ") & 0x1) != 0) ">>, <<"{">>, <<"\n">>,
       <<"\t\tul.tex", ToString(i), ".xy += float2(0,1) * texOffset;\n">>,
       <<"\t\tur.tex", ToString(i), ".xy += texOffset;\n">>,
       <<"\t\tlr.tex", ToString(i), ".xy += float2(1,0) * texOffset;\n">>,
       <<"\t">>, <<"}">>, <<"\n">> >>)

\* lines 265-320: the expansion of the input vertex and its emission
ExpandAndEmit(ApiType, host_config, uid_data, pixel_lighting) ==
  IF uid_data.primitive_type = Lines
    THEN << <<"\tVS_OUTPUT l = f;\n", "\tVS_OUTPUT r = f;\n">>,
            <<"\tl.pos.xy -= offset * l.pos.w;\n", "\tr.pos.xy += offset * r.pos.w;\n">>,
            <<"\tif (", I_TEXOFFSET, "[2] != 0) ">>, <<"{">>, <<"\n">>,
            <<"\tfloat texOffset = 1.0 / float(", I_TEXOFFSET, "[2]);\n">> >>
      \o LinesTexOffset(uid_data)
      \o << <<"\t">>, <<"}">>, <<"\n">> >>
      \o EmitVertex(host_config, uid_data, "l", ApiType, host_config.wireframe, pixel_lighting, TRUE)
      \o EmitVertex(host_config, uid_data, "r", ApiType, host_config.wireframe, pixel_lighting, FALSE)
  ELSE IF uid_data.primitive_type = Points
    THEN << <<"\tVS_OUTPUT ll = f;\n", "\tVS_OUTPUT lr = f;\n",
              "\tVS_OUTPUT ul = f;\n", "\tVS_OUTPUT ur = f;\n">>,
            <<"\tll.pos.xy += float2(-1,-1) * offset;\n",
              "\tlr.pos.xy += float2(1,-1) * offset;\n",
              "\tul.pos.xy += float2(-1,1) * offset;\n",
              "\tur.pos.xy += offset;\n">>,
            <<"\tif (", I_TEXOFFSET, "[3] != 0) ">>, <<"{">>, <<"\n">>,
            <<"\tfloat2 texOffset = float2(1.0 / float(", I_TEXOFFSET,
              "[3]), 1.0 / float(", I_TEXOFFSET, "[3]));\n">> >>
      \o PointsTexOffset(uid_data)
      \o << <<"\t">>, <<"}">>, <<"\n">> >>
      \o EmitVertex(host_config, uid_data, "ll", ApiType, host_config.wireframe, pixel_lighting, TRUE)
      \o EmitVertex(host_config, uid_data, "lr", ApiType, host_config.wireframe, pixel_lighting, FALSE)
      \o EmitVertex(host_config, uid_data, "ul", ApiType, host_config.wireframe, pixel_lighting, FALSE)
      \o EmitVertex(host_config, uid_data, "ur", ApiType, host_config.wireframe, pixel_lighting, FALSE)
  ELSE EmitVertex(host_config, uid_data, "f", ApiType, host_config.wireframe, pixel_lighting, TRUE)

\* a plausible slip: the block of the software eye loop is not closed
LoopTails_NoEyeClose(ApiType, host_config, uid_data, pixel_lighting) ==
     << <<"\t">>, <<"}">>, <<"\n">> >>
  \o EndPrimitive(host_config, uid_data, ApiType, host_config.wireframe, pixel_lighting)
  \o << <<"}">>, <<"\n">> >>

\* lines 322-329: the loop ends, the end of the primitive and the end of main
LoopTails(ApiType, host_config, uid_data, pixel_lighting) ==
     << <<"\t">>, <<"}">>, <<"\n">> >>
  \o EndPrimitive(host_config, uid_data, ApiType, host_config.wireframe, pixel_lighting)
  \o (IF (host_config.stereo \/ host_config.more_layers) /\ ~host_config.backend_gs_instancing
        THEN << <<"\t">>, <<"}">>, <<"\n">> >>
        ELSE <<>>)
  \o << <<"}">>, <<"\n">> >>

\* the declarations GenerateGeometryShaderCode writes before the body of main
Declarations(ApiType, host_config, uid_data) ==
  LET pixel_lighting == g_ActiveConfig.bEnablePixelLighting
  IN     LayoutParameters(ApiType, host_config, uid_data)
      \o UniformsAndOutputStruct(ApiType, uid_data, pixel_lighting)
      \o InterfaceAndMainHead(ApiType, host_config, uid_data, pixel_lighting)

\* the text GenerateGeometryShaderCode returns
GenerateGeometryShaderCode(ApiType, host_config, uid_data) ==
  LET pixel_lighting == g_ActiveConfig.bEnablePixelLighting
  IN     Declarations(ApiType, host_config, uid_data)
      \o PrimitiveSetup(ApiType, uid_data, pixel_lighting)
      \o LoopHeads(host_config, uid_data)
      \o CopyInputVertex(ApiType, host_config, uid_data, pixel_lighting)
      \o SelectLayer(ApiType, host_config)
      \o ExpandAndEmit(ApiType, host_config, uid_data, pixel_lighting)
      \o LoopTails(ApiType, host_config, uid_data, pixel_lighting)

----------------------------------------------------------------------------
(* GenerateAvatarGeometryShader: the generator of the fixed avatar shape *)

\* lines 414-420 and 459: the dummy UID data the helpers are handed; only
\* primitive_type and numTexGens are ever assigned, and nothing else is read
AvatarUidData(primitive_type) ==
  [primitive_type |-> primitive_type, numTexGens |-> 1, unused |-> 0]

\* lines 529-531 and the like: the hand-written copies of pos, colors_0, tex0
AvatarAssign(a, b) ==
  << AssignMember(a, b, ".pos"),
     AssignMember(a, b, ".colors_0"),
     <<"\t", a, ".tex", "0", " = ", b, ".tex", "0", ";\n">> >>

\* lines 463-465 and the like: the three members of the avatar's vertex
AvatarMembers(qualifier) ==
  << DefineOutputMember(qualifier, " float4 ", "pos", ""),
     DefineOutputMember(qualifier, " float4 ", "colors_", "0"),
     DefineOutputMember(qualifier, " float3 ", "tex", "0") >>

\* lines 429-446: the layout parameters, written for OpenGL alone
AvatarLayoutParameters(primitive_type, ApiType, host_config) ==
  IF ApiType = "OpenGL"
    THEN LayoutParameters(ApiType, host_config, AvatarUidData(primitive_type))
    ELSE <<>>

\* lines 448-466: uniform block and the VS_OUTPUT struct
AvatarUniformsAndOutputStruct(ApiType, bSupportsBindingLayout) ==
     (IF ApiType = "OpenGL"
        THEN << <<"layout(std140", IF bSupportsBindingLayout THEN ", binding = 3" ELSE "",
                  ") uniform GSBlock ">>, <<"{">>, <<"\n">> >>
        ELSE << <<"cbuffer GSBlock ">>, <<"{">>, <<"\n">> >>)
  \o << <<"\tfloat4 ", I_STEREOPARAMS, ";\n",
          "\tfloat4 ", I_LINEPTPARAMS, ";\n",
          "\tint4 ", I_TEXOFFSET, ";\n">>, <<"}">>, <<";\n">> >>
  \o << <<"struct VS_OUTPUT ">>, <<"{">>, <<"\n">> >>
  \o AvatarMembers("")
  \o << <<"}">>, <<";\n">> >>

\* lines 468-520: the stage interface and the head of main
AvatarInterfaceAndMainHead(primitive_type, ApiType, host_config, bSupportsBindingLayout) ==
  LET uid_data == AvatarUidData(primitive_type)
  IN IF ApiType = "OpenGL"
    THEN (IF host_config.backend_gs_instancing
            THEN << <<"#define InstanceID gl_InvocationID\n">> >>
            ELSE <<>>)
      \o << <<"in VertexData ">>, <<"{">>, <<"\n">> >>
      \o AvatarMembers(IF bSupportsBindingLayout THEN "centroid" ELSE "centroid in")
      \o << <<"}">>, <<" vs[", ToString(vertex_in(uid_data)), "];\n">> >>
      \o << <<"out VertexData ">>, <<"{">>, <<"\n">> >>
      \o AvatarMembers(IF bSupportsBindingLayout THEN "centroid" ELSE "centroid out")
      \o (IF host_config.stereo \/ host_config.more_layers
            THEN << <<"\tflat int layer;\n">> >>
            ELSE <<>>)
      \o << <<"}">>, <<" ps;\n">> >>
      \o << <<"void main()\n">>, <<"{">>, <<"\n">> >>
    ELSE << <<"struct VertexData ">>, <<"{">>, <<"\n">> >>
      \o << <<"\tVS_OUTPUT o;\n">> >>
      \o (IF host_config.stereo \/ host_config.more_layers
            THEN << <<"\tuint layer : SV_RenderTargetArrayIndex;\n">> >>
            ELSE <<>>)
      \o << <<"}">>, <<";\n">> >>
      \o (IF host_config.backend_gs_instancing
            THEN << <<"[maxvertexcount(", ToString(vertex_out(host_config, uid_data)),
                      ")]\n[instance(", ToString(layers(host_config)), ")]\n">>,
                    <<"void main(", primitives_d3d[primitive_type + 1],
                      " VS_OUTPUT o[", ToString(vertex_in(uid_data)), "], inout ",
                      IF host_config.wireframe THEN "Line" ELSE "Triangle",
                      "Stream<VertexData> output, in uint InstanceID : SV_GSInstanceID)\n">>, <<"{">>, <<"\n">> >>
            ELSE << <<"[maxvertexcount(",
                      ToString(vertex_out(host_config, uid_data) * layers(host_config)),
                      ")]\n">>,
                    <<"void main(", primitives_d3d[primitive_type + 1],
                      " VS_OUTPUT o[", ToString(vertex_in(uid_data)), "], inout ",
                      IF host_config.wireframe THEN "Line" ELSE "Triangle",
                      "Stream<VertexData> output)\n">>, <<"{">>, <<"\n">> >>)
      \o << <<"\tVertexData ps;\n">> >>

\* lines 522-581: the primitive-specific setup before the loops
AvatarPrimitiveSetup(primitive_type, ApiType) ==
  IF primitive_type = Lines
    THEN (IF ApiType = "OpenGL"
            THEN << <<"\tVS_OUTPUT start, end;\n">> >>
                 \o AvatarAssign("start", "vs[0]")
                 \o AvatarAssign("end", "vs[1]")
            ELSE << <<"\tVS_OUTPUT start = o[0];\n">>,
                    <<"\tVS_OUTPUT end = o[1];\n">> >>)
      \o << <<"\tfloat2 offset;\n",
              "\tfloat2 to = abs(end.pos.xy - start.pos.xy);\n",
              "\tif (", I_LINEPTPARAMS, ".y * to.y > ", I_LINEPTPARAMS, ".x * to.x) ">>, <<"{">>, <<"\n",
              "\t\toffset = float2(", I_LINEPTPARAMS, ".z / ", I_LINEPTPARAMS, ".x, 0);\n",
              "\t">>, <<"}">>, <<" else ">>, <<"{">>, <<"\n",
              "\t\toffset = float2(0, -", I_LINEPTPARAMS, ".z / ", I_LINEPTPARAMS, ".y);\n",
              "\t">>, <<"}">>, <<"\n">> >>
  ELSE IF primitive_type = Points
    THEN (IF ApiType = "OpenGL"
            THEN << <<"\tVS_OUTPUT center;\n">> >>
                 \o AvatarAssign("center", "vs[0]")
            ELSE << <<"\tVS_OUTPUT center = o[0];\n">> >>)
      \o << <<"\tfloat2 offset = float2(", I_LINEPTPARAMS, ".w / ", I_LINEPTPARAMS,
              ".x, -", I_LINEPTPARAMS, ".w / ", I_LINEPTPARAMS, ".y) * center.pos.w;\n">> >>
  ELSE <<>>

\* lines 583-596: the binding of eye, the wireframe 'first' vertex and the
\* head of the loop over the input vertices; the bound of the eye loop is the
\* literal 2 of line 590, cut out of its format string as a token of its own
AvatarLoopHeads(primitive_type, host_config) ==
     (IF host_config.stereo \/ host_config.more_layers
        THEN IF host_config.backend_gs_instancing
               THEN << <<"\tint eye = InstanceID;\n">> >>
               ELSE << <<"\tfor (int eye = 0; eye < ", "2", "; ++eye) ">>, <<"{">>, <<"\n">> >>
        ELSE <<>>)
  \o (IF host_config.wireframe
        THEN << <<"\tVS_OUTPUT first;\n">> >>
        ELSE <<>>)
  \o << <<"\tfor (int i = 0; i < ", ToString(vertex_in(AvatarUidData(primitive_type))),
          "; ++i) ">>, <<"{">>, <<"\n">> >>

\* lines 598-610: the copy of the input vertex i into f
AvatarCopyInputVertex(ApiType) ==
  IF ApiType = "OpenGL"
    THEN << <<"\tVS_OUTPUT f;\n">> >> \o AvatarAssign("f", "vs[i]")
    ELSE << <<"\tVS_OUTPUT f = o[i];\n">> >>

\* lines 612-641: the selection of the output layer
AvatarSelectLayer(ApiType, host_config) ==
  IF host_config.vr
    THEN << <<"\tps.layer = eye;\n">> >>
      \o (IF ApiType = "OpenGL" THEN << <<"\tgl_Layer = eye;\n">> >> ELSE <<>>)
      \o << <<"\tf.pos.x += ", I_STEREOPARAMS, "[eye] - ", I_STEREOPARAMS,
              "[eye+2] * f.pos.w;\n">> >>
  ELSE IF host_config.stereo \/ host_config.more_layers
    THEN << <<"\tps.layer = eye;\n">> >>
      \o (IF ApiType = "OpenGL" THEN << <<"\tgl_Layer = eye;\n">> >> ELSE <<>>)
      \o << <<"\tf.pos.x += ", I_STEREOPARAMS, "[eye] * (f.pos.w - ", I_STEREOPARAMS,
              "[2]);\n">> >>
  ELSE <<>>

\* lines 680-687: the guarded nudges of three corners of a point, for the one
\* channel of the avatar
AvatarPointsTexOffset ==
  ForLoop(1, LAMBDA i :
    << <<"\tif (((", I_TEXOFFSET, "[1] >> ", ToString(i), ") & 0x1) != 0) ">>, <<"{">>, <<"\n">>,
       <<"\t\tll.tex", ToString(i), ".xy += float2(0,1) * texOffset;\n">>,
       <<"\t\tlr.tex", ToString(i), ".xy += texOffset;\n">>,
       <<"\t\tur.tex", ToString(i), ".xy += float2(1,0) * texOffset;\n">>,
       <<"\t">>, <<"}">>, <<"\n">> >>)

\* lines 643-698: the expansion of the input vertex and its emission
AvatarExpandAndEmit(primitive_type, ApiType, host_config, pixel_lighting) ==
  LET uid_data == AvatarUidData(primitive_type)
  IN IF primitive_type = Lines
    THEN << <<"\tVS_OUTPUT l = f;\n", "\tVS_OUTPUT r = f;\n">>,
            <<"\tl.pos.xy -= offset * l.pos.w;\n", "\tr.pos.xy += offset * r.pos.w;\n">>,
            <<"\tif (", I_TEXOFFSET, "[2] != 0) ">>, <<"{">>, <<"\n">>,
            <<"\tfloat texOffset = 1.0 / float(", I_TEXOFFSET, "[2]);\n">> >>
      \o LinesTexOffset(uid_data)
      \o << <<"\t">>, <<"}">>, <<"\n">> >>
      \o EmitVertex(host_config, uid_data, "l", ApiType, host_config.wireframe, pixel_lighting, TRUE)
      \o EmitVertex(host_config, uid_data, "r", ApiType, host_config.wireframe, pixel_lighting, FALSE)
  ELSE IF primitive_type = Points
    THEN << <<"\tVS_OUTPUT ll = f;\n", "\tVS_OUTPUT lr = f;\n",
              "\tVS_OUTPUT ul = f;\n", "\tVS_OUTPUT ur = f;\n">>,
            <<"\tll.pos.xy += float2(-1,-1) * offset;\n",
              "\tlr.pos.xy += float2(1,-1) * offset;\n",
              "\tul.pos.xy += float2(-1,1) * offset;\n",
              "\tur.pos.xy += offset;\n">>,
            <<"\tif (", I_TEXOFFSET, "[3] != 0) ">>, <<"{">>, <<"\n">>,
            <<"\tfloat2 texOffset = float2(1.0 / float(", I_TEXOFFSET,
              "[3]), 1.0 / float(", I_TEXOFFSET, "[3]));\n">> >>
      \o AvatarPointsTexOffset
      \o << <<"\t">>, <<"}">>, <<"\n">> >>
      \o EmitVertex(host_config, uid_data, "ll", ApiType, host_config.wireframe, pixel_lighting, TRUE)
      \o EmitVertex(host_config, uid_data, "lr", ApiType, host_config.wireframe, pixel_lighting, FALSE)
      \o EmitVertex(host_config, uid_data, "ul", ApiType, host_config.wireframe, pixel_lighting, FALSE)
      \o EmitVertex(host_config, uid_data, "ur", ApiType, host_config.wireframe, pixel_lighting, FALSE)
  ELSE EmitVertex(host_config, uid_data, "f", ApiType, host_config.wireframe, pixel_lighting, TRUE)

\* lines 700-707: the loop ends, the end of the primitive and the end of main
AvatarLoopTails(primitive_type, ApiType, host_config, pixel_lighting) ==
     << <<"\t">>, <<"}">>, <<"\n">> >>
  \o EndPrimitive(host_config, AvatarUidData(primitive_type), ApiType, host_config.wireframe,
                  pixel_lighting)
  \o (IF (host_config.stereo \/ host_config.more_layers) /\ ~host_config.backend_gs_instancing
        THEN << <<"\t">>, <<"}">>, <<"\n">> >>
        ELSE <<>>)
  \o << <<"}">>, <<"\n">> >>

\* the text GenerateAvatarGeometryShaderCode returns;
\* g_ActiveConfig.backend_info.bSupportsBindingLayout is an input of the call
GenerateAvatarGeometryShaderCode(primitive_type, ApiType, host_config, bSupportsBindingLayout) ==
  LET pixel_lighting == g_ActiveConfig.bEnablePixelLighting
  IN     AvatarLayoutParameters(primitive_type, ApiType, host_config)
      \o AvatarUniformsAndOutputStruct(ApiType, bSupportsBindingLayout)
      \o AvatarInterfaceAndMainHead(primitive_type, ApiType, host_config, bSupportsBindingLayout)
      \o AvatarPrimitiveSetup(primitive_type, ApiType)
      \o AvatarLoopHeads(primitive_type, host_config)
      \o AvatarCopyInputVertex(ApiType)
      \o AvatarSelectLayer(ApiType, host_config)
      \o AvatarExpandAndEmit(primitive_type, ApiType, host_config, pixel_lighting)
      \o AvatarLoopTails(primitive_type, ApiType, host_config, pixel_lighting)

----------------------------------------------------------------------------
(* The two constructors of a GeometryShaderUid *)

\* a plausible slip: the storage is not zeroed
memset0_Skipped(storage) == storage

\* memset(uid_data, 0, sizeof(geometry_shader_uid_data)): every bit of the
\* storage, whatever it held, becomes zero
memset0(storage) == [primitive_type |-> 0, numTexGens |-> 0, unused |-> 0]

\* storage is what the memory of the local 'out' holds when the function is
\* entered; xf_numTexGens is xfmem.numTexGen.numTexGens as read by the call
GetGeometryShaderUid(storage, primitive_type, xf_numTexGens) ==
  [memset0(storage) EXCEPT !.primitive_type = primitive_type,
                           !.numTexGens = xf_numTexGens]

primitive_lut(bSupportsPrimitiveRestart) ==
  << IF bSupportsPrimitiveRestart THEN TriangleStrip ELSE Triangles, Lines, Points >>

\* a plausible slip: the loop over the texgen counts stops before 8
EnumerateGeometryShaderUids_Below8(storage, bSupportsPrimitiveRestart) ==
  LET zeroed == memset0(storage)
      lut == primitive_lut(bSupportsPrimitiveRestart)
  IN  Flatten([p \in 1..Len(lut) |->
        [t \in 1..MaxEnumTexGens |->
           [zeroed EXCEPT !.primitive_type = lut[p], !.numTexGens = t - 1]]])

\* the UIDs EnumerateGeometryShaderUids passes to its callback, in call order:
\* one uid object, zeroed once, whose two fields are overwritten in the loops
EnumerateGeometryShaderUids(storage, bSupportsPrimitiveRestart) ==
  LET zeroed == memset0(storage)
      lut == primitive_lut(bSupportsPrimitiveRestart)
  IN  Flatten([p \in 1..Len(lut) |->
        [t \in 1..(MaxEnumTexGens + 1) |->
           [zeroed EXCEPT !.primitive_type = lut[p], !.numTexGens = t - 1]]])

----------------------------------------------------------------------------
(* The state machine: a caller that builds a UID or takes one from the      *)
(* enumeration, snapshots the host configuration and generates.             *)

\* contents the storage of an uninitialised UID object may have
DirtyStorage == [primitive_type |-> TriangleStrip, numTexGens |-> MaxXfTexGens, unused |-> 1]

\* the host configurations a caller may pass: every value of the flags the
\* generator reads
HostConfigs ==
  [wireframe: BOOLEAN, msaa: BOOLEAN, ssaa: BOOLEAN, stereo: BOOLEAN,
   vr: BOOLEAN, more_layers: BOOLEAN, backend_gs_instancing: BOOLEAN,
   backend_depth_clamp: BOOLEAN]

NoHostConfig ==
  [wireframe |-> FALSE, msaa |-> FALSE, ssaa |-> FALSE, stereo |-> FALSE,
   vr |-> FALSE, more_layers |-> FALSE, backend_gs_instancing |-> FALSE,
   backend_depth_clamp |-> FALSE]

NoEnumeration == [bSupportsPrimitiveRestart |-> FALSE, callbacks |-> <<>>]

NoGen ==
  [called |-> FALSE, ApiType |-> "Nothing", host_config |-> NoHostConfig,
   uid_data |-> DirtyStorage, pixel_lighting |-> FALSE, has_bug |-> FALSE,
   out |-> <<>>]

\* one call of GenerateGeometryShaderCode: its arguments, the two globals as
\* the call read them, and the text it returned
Call(ApiType, host_config, uid_data) ==
  [called |-> TRUE, ApiType |-> ApiType, host_config |-> host_config,
   uid_data |-> uid_data,
   pixel_lighting |-> g_ActiveConfig.bEnablePixelLighting,
   has_bug |-> HasBug,
   out |-> GenerateGeometryShaderCode(ApiType, host_config, uid_data)]

\* the number of GenerateGeometryShaderCode calls that may be in flight at once
NumCalls == 2

\* a call that is not in flight; pc is the section of the function the call
\* executes next, reads and writes are the objects it has accessed
IdleCall ==
  [pc |-> "idle", ApiType |-> "Nothing", host_config |-> NoHostConfig,
   uid_data |-> DirtyStorage, pixel_lighting |-> FALSE, reads |-> {}, writes |-> {}]

NoAvatar ==
  [called |-> FALSE, primitive_type |-> Points, ApiType |-> "Nothing",
   host_config |-> NoHostConfig, bSupportsBindingLayout |-> FALSE, out |-> <<>>]

\* the globals start with their defaults: per-pixel lighting, stereoscopy and
\* wireframe off, no driver bug detected
Init ==
  /\ g_ActiveConfig = [bEnablePixelLighting |-> FALSE, iStereoMode |-> 0,
                       bWireFrame |-> FALSE]
  /\ driver_bugs = FALSE
  /\ avatar = NoAvatar
  /\ calls = [p \in 1..NumCalls |-> IdleCall]
  /\ buffers = [p \in 1..NumCalls |-> <<>>]
  /\ uid = [built |-> FALSE, data |-> DirtyStorage]
  /\ enumerated = NoEnumeration
  /\ gen = NoGen
  /\ prev_out = [valid |-> FALSE, out |-> <<>>]

\* a caller builds the UID of the current draw state
CallGetGeometryShaderUid ==
  /\ ~gen.called
  /\ \E primitive_type \in PrimitiveType, xf_numTexGens \in 0..MaxXfTexGens :
       uid' = [built |-> TRUE,
               data |-> GetGeometryShaderUid(uid.data, primitive_type, xf_numTexGens)]
  /\ UNCHANGED <<g_ActiveConfig, driver_bugs, enumerated, gen, prev_out, avatar, calls, buffers>>

\* a caller enumerates the UIDs to precompile; its callback queues them
CallEnumerateGeometryShaderUids ==
  /\ ~gen.called
  /\ \E restart \in BOOLEAN, storage \in {DirtyStorage, uid.data} :
       enumerated' = [bSupportsPrimitiveRestart |-> restart,
                      callbacks |-> EnumerateGeometryShaderUids(storage, restart)]
  /\ UNCHANGED <<g_ActiveConfig, driver_bugs, uid, gen, prev_out, avatar, calls, buffers>>

\* the caller takes one of the queued UIDs as the UID to generate for; the
\* queue is dropped
TakeEnumerated ==
  /\ ~gen.called
  /\ enumerated.callbacks # <<>>
  /\ \E k \in 1..Len(enumerated.callbacks) :
       uid' = [built |-> TRUE, data |-> enumerated.callbacks[k]]
  /\ enumerated' = NoEnumeration
  /\ UNCHANGED <<g_ActiveConfig, driver_bugs, gen, prev_out, avatar, calls, buffers>>

\* the first generation for the caller's UID
Generate ==
  /\ ~gen.called
  /\ uid.built
  /\ enumerated.callbacks = <<>>
  /\ \E ApiType \in APIType, host_config \in HostConfigs :
       gen' = Call(ApiType, host_config, uid.data)
  /\ UNCHANGED <<g_ActiveConfig, driver_bugs, uid, enumerated, prev_out, avatar, calls, buffers>>

\* the second generation is explored for the UIDs of at most MaxRegenTexGens
\* texture generators, after at most one change of the globals
BetweenGenerations ==
  /\ gen.called
  /\ ~prev_out.valid
  /\ gen.uid_data.numTexGens <= MaxRegenTexGens

\* the user switches per-pixel lighting between two generations
SetEnablePixelLighting ==
  /\ BetweenGenerations
  /\ gen.pixel_lighting = g_ActiveConfig.bEnablePixelLighting
  /\ gen.has_bug = driver_bugs
  /\ g_ActiveConfig' = [g_ActiveConfig EXCEPT !.bEnablePixelLighting = ~@]
  /\ UNCHANGED <<driver_bugs, uid, enumerated, gen, prev_out, avatar, calls, buffers>>

\* the backend is initialised again and detects another driver
DriverDetailsInit ==
  /\ BetweenGenerations
  /\ gen.pixel_lighting = g_ActiveConfig.bEnablePixelLighting
  /\ gen.has_bug = driver_bugs
  /\ driver_bugs' = ~driver_bugs
  /\ UNCHANGED <<g_ActiveConfig, uid, enumerated, gen, prev_out, avatar, calls, buffers>>

\* a second, independent generation with the same three arguments; the text
\* of the first one is kept (as a cache keeps it)
Regenerate ==
  /\ BetweenGenerations
  /\ prev_out' = [valid |-> TRUE, out |-> gen.out]
  /\ gen' = Call(gen.ApiType, gen.host_config, gen.uid_data)
  /\ UNCHANGED <<g_ActiveConfig, driver_bugs, uid, enumerated, avatar, calls, buffers>>

Next ==
  \/ CallGetGeometryShaderUid
  \/ CallEnumerateGeometryShaderUids
  \/ TakeEnumerated
  \/ Generate
  \/ SetEnablePixelLighting
  \/ DriverDetailsInit
  \/ Regenerate

Spec == Init /\ [][Next]_vars

----------------------------------------------------------------------------
(* The general and the avatar generator side by side: a caller generates   *)
(* the program of a UID and, for a UID of the avatar's shape, the avatar's  *)
(* program for the same primitive type, API and host configuration.         *)

\* one call of GenerateAvatarGeometryShaderCode: its arguments, the backend
\* capability it read, and the text it returned
CallAvatar(primitive_type, ApiType, host_config, bSupportsBindingLayout) ==
  [called |-> TRUE, primitive_type |-> primitive_type, ApiType |-> ApiType,
   host_config |-> host_config, bSupportsBindingLayout |-> bSupportsBindingLayout,
   out |-> GenerateAvatarGeometryShaderCode(primitive_type, ApiType, host_config,
                                            bSupportsBindingLayout)]

\* the avatar's program is generated next to the general program of a UID
\* with one texture generator: same primitive type, API and host
\* configuration
GenerateAvatar ==
  /\ gen.called
  /\ ~avatar.called
  /\ gen.uid_data.numTexGens = 1
  /\ \E bSupportsBindingLayout \in BOOLEAN :
       avatar' = CallAvatar(gen.uid_data.primitive_type, gen.ApiType, gen.host_config,
                            bSupportsBindingLayout)
  /\ UNCHANGED <<g_ActiveConfig, driver_bugs, uid, enumerated, gen, prev_out, calls, buffers>>

NextAvatar ==
  \/ CallGetGeometryShaderUid
  \/ CallEnumerateGeometryShaderUids
  \/ TakeEnumerated
  \/ Generate
  \/ GenerateAvatar

SpecAvatar == Init /\ [][NextAvatar]_vars

----------------------------------------------------------------------------
(* Concurrent calls of GenerateGeometryShaderCode: NumCalls callers, each   *)
(* executing the function section by section; the sections of different     *)
(* calls interleave in every order.                                          *)

\* the arguments the concurrent calls are explored with
ConcurrentApis == {"OpenGL", "D3D"}
ConcurrentHostConfigs ==
  { [NoHostConfig EXCEPT !.backend_depth_clamp = TRUE],
    [NoHostConfig EXCEPT !.stereo = TRUE, !.wireframe = TRUE] }
ConcurrentUids == { GetGeometryShaderUid(DirtyStorage, Lines, 1) }

\* a plausible slip: the buffer is a function-level static, one for all calls
OutOf_Static(p) == 1

\* "ShaderCode out;": the buffer call p writes is an object of its own
OutOf(p) == p

\* what a call does to its buffer in one section
Write(p, text) == buffers' = [buffers EXCEPT ![OutOf(p)] = @ \o text]

\* lines 48-67: the call is entered, constructs its buffer and reads its
\* locals from the arguments and from g_ActiveConfig
BeginCall(p) ==
  /\ calls[p].pc = "idle"
  /\ \E ApiType \in ConcurrentApis, host_config \in ConcurrentHostConfigs,
        uid_data \in ConcurrentUids :
       calls' = [calls EXCEPT ![p] =
                   [pc |-> "declarations", ApiType |-> ApiType,
                    host_config |-> host_config, uid_data |-> uid_data,
                    pixel_lighting |-> g_ActiveConfig.bEnablePixelLighting,
                    reads |-> {<<"g_ActiveConfig">>, <<"host_config", host_config>>,
                               <<"uid_data", uid_data>>},
                    writes |-> {<<"ShaderCode", OutOf(p)>>}]]
  /\ buffers' = [buffers EXCEPT ![OutOf(p)] = <<>>]
  /\ UNCHANGED <<g_ActiveConfig, driver_bugs, uid, enumerated, gen, prev_out, avatar>>

\* lines 69-150
WriteDeclarations(p) ==
  LET c == calls[p]
  IN  /\ c.pc = "declarations"
      /\ Write(p, LayoutParameters(c.ApiType, c.host_config, c.uid_data)
                  \o UniformsAndOutputStruct(c.ApiType, c.uid_data, c.pixel_lighting)
                  \o InterfaceAndMainHead(c.ApiType, c.host_config, c.uid_data,
                                           c.pixel_lighting))
      /\ calls' = [calls EXCEPT ![p].pc = "setup"]
      /\ UNCHANGED <<g_ActiveConfig, driver_bugs, uid, enumerated, gen, prev_out, avatar>>

\* lines 152-214
WriteSetup(p) ==
  LET c == calls[p]
  IN  /\ c.pc = "setup"
      /\ Write(p, PrimitiveSetup(c.ApiType, c.uid_data, c.pixel_lighting)
                  \o LoopHeads(c.host_config, c.uid_data))
      /\ calls' = [calls EXCEPT ![p].pc = "copy"]
      /\ UNCHANGED <<g_ActiveConfig, driver_bugs, uid, enumerated, gen, prev_out, avatar>>

\* lines 216-233: the section that asks DriverDetails for the driver bug
WriteCopyInputVertex(p) ==
  LET c == calls[p]
  IN  /\ c.pc = "copy"
      /\ Write(p, CopyInputVertex(c.ApiType, c.host_config, c.uid_data, c.pixel_lighting))
      /\ calls' = [calls EXCEPT ![p].pc = "emit",
                                ![p].reads = @ \cup {<<"DriverDetails">>}]
      /\ UNCHANGED <<g_ActiveConfig, driver_bugs, uid, enumerated, gen, prev_out, avatar>>

\* lines 235-331
WriteEmit(p) ==
  LET c == calls[p]
  IN  /\ c.pc = "emit"
      /\ Write(p, SelectLayer(c.ApiType, c.host_config)
                  \o ExpandAndEmit(c.ApiType, c.host_config, c.uid_data, c.pixel_lighting)
                  \o LoopTails(c.ApiType, c.host_config, c.uid_data, c.pixel_lighting))
      /\ calls' = [calls EXCEPT ![p].pc = "done"]
      /\ UNCHANGED <<g_ActiveConfig, driver_bugs, uid, enumerated, gen, prev_out, avatar>>

\* the caller has taken the returned text
ReturnCall(p) ==
  /\ calls[p].pc = "done"
  /\ calls' = [calls EXCEPT ![p] = IdleCall]
  /\ UNCHANGED <<g_ActiveConfig, driver_bugs, uid, enumerated, gen, prev_out, avatar,
                 buffers>>

\* the ambient configuration is written, while no generation is in flight
WriteGlobalConfiguration ==
  /\ \A p \in 1..NumCalls : calls[p].pc = "idle"
  /\ \E pixel_lighting \in BOOLEAN, has_bug \in BOOLEAN :
       /\ g_ActiveConfig' = [g_ActiveConfig EXCEPT !.bEnablePixelLighting = pixel_lighting]
       /\ driver_bugs' = has_bug
  /\ UNCHANGED <<uid, enumerated, gen, prev_out, avatar, calls, buffers>>

NextConcurrent ==
  \/ \E p \in 1..NumCalls : BeginCall(p)
  \/ \E p \in 1..NumCalls : WriteDeclarations(p)
  \/ \E p \in 1..NumCalls : WriteSetup(p)
  \/ \E p \in 1..NumCalls : WriteCopyInputVertex(p)
  \/ \E p \in 1..NumCalls : WriteEmit(p)
  \/ \E p \in 1..NumCalls : ReturnCall(p)
  \/ WriteGlobalConfiguration

SpecConcurrent == Init /\ [][NextConcurrent]_vars

----------------------------------------------------------------------------
(* Reading a generated text *)

\* the positions of the chunks of a text that satisfy P
Pos(out, P(_)) == {k \in DOMAIN out : P(out[k])}

\* the number a %d argument token was formatted from
DecimalValue(s) == CHOOSE n \in 0..99 : ToString(n) = s

IsMaxVerticesGL(c) == Len(c) = 5 /\ c[1] = "layout(" /\ c[3] = "_strip, max_vertices = "
IsMaxVerticesD3D(c) == c[1] = "[maxvertexcount("
IsInvocationsGL(c) == Len(c) = 5 /\ c[1] = "layout(" /\ c[3] = ", invocations = "
IsInstanceD3D(c) == Len(c) = 5 /\ c[1] = "[maxvertexcount(" /\ c[3] = ")]\n[instance("

\* the values of max_vertices / maxvertexcount the text declares
DeclaredMaxVertices(out) ==
  {DecimalValue(out[k][4]) : k \in Pos(out, IsMaxVerticesGL)}
    \cup {DecimalValue(out[k][2]) : k \in Pos(out, IsMaxVerticesD3D)}

\* the values of invocations / instance the text declares
DeclaredInvocations(out) ==
  {DecimalValue(out[k][4]) : k \in Pos(out, IsInvocationsGL) \cup Pos(out, IsInstanceD3D)}

IsEmitCall(c) == c = <<"\tEmitVertex();\n">> \/ c = <<"\toutput.Append(ps);\n">>
IsEndPrimitiveCall(c) == c = <<"\tEndPrimitive();\n">> \/ c = <<"\toutput.RestartStrip();\n">>
IsEyeLoopHead(c) == c[1] = "\tfor (int eye = 0; eye < "
IsEyeBinding(c) == c = <<"\tint eye = InstanceID;\n">>
IsVertexLoopHead(c) == c[1] = "\tfor (int i = 0; i < "
IsLayerWrite(c) == c = <<"\tps.layer = eye;\n">>
IsMainHead(c) == c[1] = "void main()\n" \/ c[1] = "void main("

IsOpen(c) == c = <<"{">>
IsClose(c) == c = <<"}">>

\* the positions of the braces of a text
Depths(out) == [open |-> Pos(out, IsOpen), close |-> Pos(out, IsClose)]

\* the block depth after the first k chunks of a text
DepthAt(d, k) ==
  Cardinality({i \in d.open : i <= k}) - Cardinality({i \in d.close : i <= k})

\* the brace that closes the block opened by the brace that follows the
\* (head) chunk at position k: the first closing brace after k that returns
\* to the depth of k; 0 when the block is never closed
ClosingOf(d, k) ==
  LET dk == DepthAt(d, k)
      back == {j \in d.close : j > k /\ DepthAt(d, j) <= dk}
  IN  IF back = {} THEN 0 ELSE CHOOSE j \in back : \A i \in back : j <= i

\* the layers and vertex-out counts as the specification states them
LayerLaw(h) ==
  (IF h.more_layers THEN 2 ELSE 0) + (IF h.stereo THEN 1 ELSE 0) + 1
VertexCountLaw(h, u) ==
  (IF u.primitive_type = TriangleStrip THEN 3 ELSE 4) + (IF h.wireframe THEN 1 ELSE 0)

----------------------------------------------------------------------------
(* C1 *)

\* C1 (as claimed): two generation calls with equal UID fields, an equal host
\* configuration and the same API return identical text, so the text kept
\* from the first call equals what the second call generates.
C1_Deterministic == prev_out.valid => prev_out.out = gen.out

----------------------------------------------------------------------------
(* C2 *)

\* C2: the vertex-out count is (TriangleStrip ? 3 : 4) + (wireframe ? 1 : 0)
\* for every primitive type, wireframe flag and numTexGens: the generator's
\* vertex_out has that value, and wherever the declaration carries the count
\* itself (instancing, or a single layer) the text declares exactly it.
C2_VertexCountLaw ==
  gen.called =>
    LET h == gen.host_config
        u == gen.uid_data
    IN  /\ vertex_out(h, u) = VertexCountLaw(h, u)
        /\ (h.backend_gs_instancing \/ (~h.stereo /\ ~h.more_layers))
             => DeclaredMaxVertices(gen.out) = {VertexCountLaw(h, u)}

C2_Witness ==
  /\ gen.called
  /\ gen.host_config.wireframe
  /\ gen.uid_data.primitive_type = TriangleStrip
  /\ gen.uid_data.numTexGens = 8
  /\ DeclaredMaxVertices(gen.out) = {4}

----------------------------------------------------------------------------
(* C3 *)

\* C3: layers = more_layers*2 + stereo + 1; with instancing the declarations
\* carry invocations (instance) = layers and max_vertices = vertex_out, without
\* it max_vertices = vertex_out * layers and no invocation count, in the
\* OpenGL-family form and in the HLSL form alike.
C3_LayerLaw ==
  gen.called =>
    LET h == gen.host_config
        u == gen.uid_data
    IN  /\ layers(h) = LayerLaw(h)
        /\ IF h.backend_gs_instancing
             THEN /\ DeclaredInvocations(gen.out) = {LayerLaw(h)}
                  /\ DeclaredMaxVertices(gen.out) = {VertexCountLaw(h, u)}
             ELSE /\ DeclaredInvocations(gen.out) = {}
                  /\ DeclaredMaxVertices(gen.out) = {VertexCountLaw(h, u) * LayerLaw(h)}

C3_Witness ==
  /\ gen.called
  /\ gen.ApiType = "D3D"
  /\ ~gen.host_config.backend_gs_instancing
  /\ gen.host_config.more_layers /\ gen.host_config.stereo
  /\ gen.host_config.wireframe
  /\ DeclaredMaxVertices(gen.out) = {20}

----------------------------------------------------------------------------
(* C4 *)

\* C4: the enumerator calls its callback exactly 27 times, for either value
\* of the primitive-restart flag, never twice with the same UID; the first
\* nine UIDs are TriangleStrip (restart supported) or Triangles (not), then
\* nine Lines, then nine Points, each group with the texgen counts 0..8.
C4_EnumeratorSize ==
  LET cb == enumerated.callbacks
  IN  cb # <<>> =>
        /\ Len(cb) = 27
        /\ \A i, j \in DOMAIN cb : i # j => cb[i] # cb[j]
        /\ \A i \in DOMAIN cb :
             /\ cb[i].numTexGens = (i - 1) % 9
             /\ cb[i].primitive_type =
                  (IF i <= 9
                     THEN (IF enumerated.bSupportsPrimitiveRestart
                             THEN TriangleStrip ELSE Triangles)
                   ELSE IF i <= 18 THEN Lines ELSE Points)

C4_Witness ==
  /\ Len(enumerated.callbacks) = 27
  /\ enumerated.bSupportsPrimitiveRestart
  /\ enumerated.callbacks[1].primitive_type = TriangleStrip
  /\ enumerated.callbacks[27] = [primitive_type |-> Points, numTexGens |-> 8, unused |-> 0]

----------------------------------------------------------------------------
(* C5 *)

\* C5: with stereo on, instancing alone decides how eye is obtained.  Without
\* instancing there is one software loop "for eye in [0, layers)" whose block
\* holds every vertex emission and the end-of-primitive call, and the layer
\* field is written with eye inside the per-input-vertex loop before its
\* emissions; with instancing there is no software loop, the declared
\* invocation count is layers and eye is bound to the invocation identifier.
C5_EyeBinding ==
  (gen.called /\ gen.host_config.stereo) =>
    LET out == gen.out
        h == gen.host_config
        d == Depths(out)
        loops == Pos(out, IsEyeLoopHead)
        binds == Pos(out, IsEyeBinding)
        emits == Pos(out, IsEmitCall)
        ends == Pos(out, IsEndPrimitiveCall)
        writes == Pos(out, IsLayerWrite)
        vloops == Pos(out, IsVertexLoopHead)
    IN  IF ~h.backend_gs_instancing
          THEN /\ binds = {}
               /\ Cardinality(loops) = 1
               /\ \A e \in loops :
                    LET eend == ClosingOf(d, e)
                    IN  /\ out[e] = <<"\tfor (int eye = 0; eye < ", ToString(LayerLaw(h)),
                                      "; ++eye) ">>
                        /\ IsOpen(out[e + 1])
                        /\ \A k \in emits \cup ends : e < k /\ k < eend
               /\ Cardinality(writes) = 1
               /\ \A w \in writes : \A v \in vloops :
                    LET vend == ClosingOf(d, v)
                    IN  /\ IsOpen(out[v + 1])
                        /\ v < w /\ w < vend
                        /\ \A k \in emits : k < vend => w < k
          ELSE /\ loops = {}
               /\ Cardinality(binds) = 1
               /\ DeclaredInvocations(out) = {LayerLaw(h)}
               /\ IsGL(gen.ApiType) =>
                    Pos(out, LAMBDA c : c = <<"#define InstanceID gl_InvocationID\n">>) # {}
               /\ ~IsGL(gen.ApiType) =>
                    \A m \in Pos(out, IsMainHead) :
                      out[m][7] = "Stream<VertexData> output, in uint InstanceID : SV_GSInstanceID)\n"

C5_WitnessLoop ==
  /\ gen.called /\ gen.host_config.stereo /\ ~gen.host_config.backend_gs_instancing
  /\ gen.host_config.wireframe
  /\ gen.uid_data.primitive_type = Points
  /\ Cardinality(Pos(gen.out, IsEyeLoopHead)) = 1
  /\ Cardinality(Pos(gen.out, IsEmitCall)) = 5

----------------------------------------------------------------------------
(* C6 *)

IsFirstDecl(c) == c = <<"\tVS_OUTPUT first;\n">>
IsFirstRecord(c) == c[1] = "\tif (i == 0) first = "
\* the statement that hands vertex v to the output: the position write of the
\* OpenGL family, the ps.o write of HLSL
IsOutputOf(c, v) == c = <<"\tgl_Position = ", v, ".pos;\n">> \/ c = <<"\tps.o = ", v, ";\n">>
IsOutput(c) == Len(c) = 3 /\ (c[1] = "\tgl_Position = " \/ c[1] = "\tps.o = ")

\* the first vertex the loop body emits, per primitive type
FirstEmitted(u) ==
  IF u.primitive_type = Lines THEN "l"
  ELSE IF u.primitive_type = Points THEN "ll" ELSE "f"

\* the parts of C6 that do not concern the declared bound: with wireframe on
\* the body declares first, records into it (under i == 0) the vertex of the
\* first emission of the loop body and no other, and re-emits first exactly
\* once, after the per-input-vertex loop and before the end-of-primitive call;
\* with wireframe off none of these statements exists.
WireframeClosing ==
  LET out == gen.out
      u == gen.uid_data
      d == Depths(out)
      decls == Pos(out, IsFirstDecl)
      recs == Pos(out, IsFirstRecord)
      closing == Pos(out, LAMBDA c : IsOutputOf(c, "first"))
      outputs == Pos(out, IsOutput)
      emits == Pos(out, IsEmitCall)
      ends == Pos(out, IsEndPrimitiveCall)
      vloops == Pos(out, IsVertexLoopHead)
  IN  IF gen.host_config.wireframe
        THEN /\ Cardinality(decls) = 1
             /\ Cardinality(recs) = 1
             /\ Cardinality(closing) = 1
             /\ Cardinality(ends) = 1
             /\ \A v \in vloops : \A r \in recs : \A c \in closing : \A e \in ends :
                  LET vend == ClosingOf(d, v)
                  IN  /\ IsOpen(out[v + 1])
                      /\ \A k \in decls : k < v
                      \* the record is in the loop, names the first vertex the
                      \* body emits and comes before every output of the body
                      /\ v < r /\ r < vend
                      /\ out[r] = <<"\tif (i == 0) first = ", FirstEmitted(u), ";\n">>
                      /\ \A o \in outputs : r < o
                      /\ IsOutputOf(out[r + 1], FirstEmitted(u))
                      \* the closing emission: after the loop, before the end
                      /\ vend < c /\ c < e
                      /\ Cardinality({k \in emits : vend < k /\ k < e}) = 1
                      /\ \A k \in emits : c < k => k < e
        ELSE decls = {} /\ recs = {} /\ closing = {}

\* the declared bound of the same generation with wireframe switched off
BoundWithoutWireframe ==
  DeclaredMaxVertices(
    Declarations(gen.ApiType, [gen.host_config EXCEPT !.wireframe = FALSE], gen.uid_data))

\* C6 (as claimed): the wireframe statements as above, and with wireframe on
\* the declared vertex-out bound is one more than with wireframe off.
C6_AsClaimed ==
  gen.called =>
    /\ WireframeClosing
    /\ gen.host_config.wireframe =>
         \A n \in DeclaredMaxVertices(gen.out) : \A m \in BoundWithoutWireframe : n = m + 1

\* C6 (amended): the wireframe statements as above, and with wireframe on the
\* declared bound exceeds the bound with wireframe off by one closing vertex
\* per layer the program emits itself: by 1 with instancing, by layers without.
C6_WireframeClosing ==
  gen.called =>
    /\ WireframeClosing
    /\ gen.host_config.wireframe =>
         /\ DeclaredMaxVertices(gen.out) # {}
         /\ BoundWithoutWireframe # {}
         /\ \A n \in DeclaredMaxVertices(gen.out) : \A m \in BoundWithoutWireframe :
              n = m + (IF gen.host_config.backend_gs_instancing
                         THEN 1 ELSE LayerLaw(gen.host_config))

C6_Witness ==
  /\ gen.called /\ gen.host_config.wireframe
  /\ ~gen.host_config.backend_gs_instancing /\ gen.host_config.stereo
  /\ gen.uid_data.primitive_type = Lines
  /\ Cardinality(Pos(gen.out, IsEmitCall)) = 3
  /\ DeclaredMaxVertices(gen.out) = {10}

----------------------------------------------------------------------------
(* C7 *)

\* a statement on a texture coordinate: the member tex<i> of a record, the
\* copy of tex<i> from one record to another, or a nudge of tex<i>
IsNudge(c) ==
  Len(c) = 3 /\ c[1] \in {"\t\tr.tex", "\t\tul.tex", "\t\tur.tex", "\t\tlr.tex"}
IsTexStatement(c) ==
  \/ IsNudge(c)
  \/ Len(c) >= 4 /\ (c[3] = ".tex" \/ c[4] = "tex")

\* the text of the same generation for one texture generator
UnitText ==
  GenerateGeometryShaderCode(gen.ApiType, gen.host_config,
                             [gen.uid_data EXCEPT !.numTexGens = 1])

\* C7: the number of texture-coordinate statements is numTexGens times the
\* number generated for one texture generator, hence zero for numTexGens = 0;
\* for Lines there are exactly numTexGens nudges, the one of channel i right
\* after a guard that tests bit i of the offset mask; for Points exactly
\* 3 * numTexGens, the three of channel i in a block guarded by bit i; for
\* Triangles and TriangleStrip none.
C7_TexgenThreading ==
  gen.called =>
    LET out == gen.out
        u == gen.uid_data
        n == u.numTexGens
        nudges == Pos(out, IsNudge)
        tex == Pos(out, IsTexStatement)
    IN  /\ Cardinality(tex) = n * Cardinality(Pos(UnitText, IsTexStatement))
        /\ n = 0 => tex = {}
        /\ u.primitive_type = Lines =>
             /\ Cardinality(nudges) = n
             /\ \A i \in 0..(n - 1) : \E k \in nudges :
                  /\ out[k] = <<"\t\tr.tex", ToString(i), ".x += texOffset;\n">>
                  /\ out[k - 1] = <<"\tif (((", I_TEXOFFSET, "[0] >> ", ToString(i),
                                    ") & 0x1) != 0)\n">>
        /\ u.primitive_type = Points =>
             /\ Cardinality(nudges) = 3 * n
             /\ \A i \in 0..(n - 1) : \E k \in nudges :
                  /\ out[k - 3] = <<"\tif (((", I_TEXOFFSET, "[1] >> ", ToString(i),
                                    ") & 0x1) != 0) ">>
                  /\ IsOpen(out[k - 2])
                  /\ out[k] = <<"\t\tul.tex", ToString(i), ".xy += float2(0,1) * texOffset;\n">>
                  /\ out[k + 1] = <<"\t\tur.tex", ToString(i), ".xy += texOffset;\n">>
                  /\ out[k + 2] = <<"\t\tlr.tex", ToString(i), ".xy += float2(1,0) * texOffset;\n">>
                  /\ IsClose(out[k + 4])
        /\ u.primitive_type \in {Triangles, TriangleStrip} => nudges = {}

C7_Witness ==
  /\ gen.called
  /\ gen.uid_data.primitive_type = Points
  /\ gen.uid_data.numTexGens = 8
  /\ Cardinality(Pos(gen.out, IsNudge)) = 24

----------------------------------------------------------------------------
(* C8 *)

\* the UIDs the enumerator produces, for either value of the capability flag
EnumeratedUids ==
  UNION {LET cb == EnumerateGeometryShaderUids(DirtyStorage, r)
         IN  {cb[k] : k \in DOMAIN cb} : r \in BOOLEAN}

SupportedAPI == {"OpenGL", "Vulkan", "D3D"}

IsTexOffsetGuard(c) == Len(c) = 3 /\ c[1] = "\tif (" /\ c[3] \in {"[2] != 0) ", "[3] != 0) "}
IsPointGuard(c) == Len(c) = 5 /\ c[1] = "\tif (((" /\ c[3] = "[1] >> "

\* C8: for every enumerated UID, host configuration and supported API the
\* braces of the text balance: no brace closes a block that is not open, every
\* block is closed at the end, the block of main is the last to close and the
\* text ends with its closing brace and the newline; the eye loop lies in
\* main, the per-input-vertex loop in the eye loop (in main without one), the
\* texture-offset guard in the per-input-vertex loop and each per-channel
\* guard of Points in the texture-offset guard.
C8_WellFormed ==
  (gen.called /\ gen.uid_data \in EnumeratedUids /\ gen.ApiType \in SupportedAPI) =>
    LET out == gen.out
        n == Len(out)
        d == Depths(out)
        mains == Pos(out, IsMainHead)
        eloops == Pos(out, IsEyeLoopHead)
        vloops == Pos(out, IsVertexLoopHead)
        guards == Pos(out, IsTexOffsetGuard)
        pguards == Pos(out, IsPointGuard)
        Inside(inner, outer) ==
          \A a \in inner : \A b \in outer :
            /\ IsOpen(out[a + 1])
            /\ b < a /\ a < ClosingOf(d, a) /\ ClosingOf(d, a) < ClosingOf(d, b)
    IN  /\ \A j \in d.close : DepthAt(d, j) >= 0
        /\ DepthAt(d, n) = 0
        /\ out[n] = <<"\n">> /\ IsClose(out[n - 1])
        /\ Cardinality(mains) = 1 /\ Cardinality(vloops) = 1
        /\ \A m \in mains : IsOpen(out[m + 1]) /\ ClosingOf(d, m) = n - 1
        /\ Cardinality(eloops) =
             (IF (gen.host_config.stereo \/ gen.host_config.more_layers)
                   /\ ~gen.host_config.backend_gs_instancing THEN 1 ELSE 0)
        /\ Cardinality(guards) =
             (IF gen.uid_data.primitive_type \in {Lines, Points} THEN 1 ELSE 0)
        /\ Cardinality(pguards) =
             (IF gen.uid_data.primitive_type = Points THEN gen.uid_data.numTexGens ELSE 0)
        /\ Inside(eloops, mains)
        /\ Inside(vloops, eloops \cup mains)
        /\ Inside(guards, vloops)
        /\ Inside(pguards, guards)

C8_Witness ==
  /\ gen.called /\ gen.uid_data \in EnumeratedUids /\ gen.ApiType = "D3D"
  /\ gen.uid_data.primitive_type = Points /\ gen.uid_data.numTexGens = 8
  /\ gen.host_config.stereo /\ ~gen.host_config.backend_gs_instancing
  /\ Cardinality(Pos(gen.out, IsEyeLoopHead)) = 1
  /\ Cardinality(Pos(gen.out, IsPointGuard)) = 8
  /\ DepthAt(Depths(gen.out), Len(gen.out)) = 0

----------------------------------------------------------------------------
(* C9 *)

\* C9 (as claimed): a generation called with more than 8 texture generators
\* or with an API outside the supported set returns no shader text.
C9_FailFast ==
  (gen.called /\ (gen.uid_data.numTexGens > MaxEnumTexGens \/ gen.ApiType \notin SupportedAPI))
    => gen.out = <<>>

----------------------------------------------------------------------------
(* C10 *)

\* the UIDs the two constructors have handed out in a state
BuiltUids ==
  (IF uid.built THEN {uid.data} ELSE {})
    \cup {enumerated.callbacks[k] : k \in DOMAIN enumerated.callbacks}

\* C10: every UID built by GetGeometryShaderUid or passed to the enumerator's
\* callback has its bits outside primitive_type and numTexGens zero, whatever
\* the storage held before, so two such UIDs are equal as bit patterns exactly
\* when their primitive_type and numTexGens are equal.
C10_CanonicalUid ==
  /\ \A a \in BuiltUids : a.unused = 0
  /\ \A a, b \in BuiltUids :
       (a = b) <=> (a.primitive_type = b.primitive_type /\ a.numTexGens = b.numTexGens)

C10_Witness ==
  /\ uid.built
  /\ uid.data = [primitive_type |-> Lines, numTexGens |-> 3, unused |-> 0]
  /\ Len(enumerated.callbacks) = 27
  /\ enumerated.callbacks[13] = uid.data

----------------------------------------------------------------------------
(* C11 *)

\* C11: with the ambient configuration written only while no generation is
\* in flight, in every interleaving of the concurrent calls a finished call
\* holds in its buffer exactly the text the generator returns for its
\* arguments when run alone, and no call writes an object another call reads
\* or writes.
C11_NoSharedState ==
  /\ \A p \in 1..NumCalls :
       calls[p].pc = "done" =>
         buffers[OutOf(p)] =
           GenerateGeometryShaderCode(calls[p].ApiType, calls[p].host_config,
                                      calls[p].uid_data)
  /\ \A p, q \in 1..NumCalls :
       p # q => calls[p].writes \cap (calls[q].reads \cup calls[q].writes) = {}

C11_Witness ==
  /\ calls[1].pc = "done" /\ calls[2].pc = "copy"
  /\ calls[1].ApiType = "OpenGL" /\ calls[2].ApiType = "D3D"
  /\ calls[1].host_config.backend_depth_clamp
  /\ driver_bugs /\ g_ActiveConfig.bEnablePixelLighting
  /\ Pos(buffers[1], LAMBDA c : c = <<"\tf.clipDist0 = gl_in[i].gl_ClipDistance[0];\n">>) # {}
  /\ buffers[2] # <<>>

----------------------------------------------------------------------------
(* C12 *)

\* the vertices one pass of the per-input-vertex loop body emits, in order
Emitted(u) ==
  IF u.primitive_type = Points THEN <<"ll", "lr", "ul", "ur">>
  ELSE IF u.primitive_type = Lines THEN <<"l", "r">>
  ELSE <<"f">>

\* the statement that copies input vertex i into f
IsInputCopy(c) ==
  c = <<"\tVS_OUTPUT f = o[i];\n">> \/ c = <<"\t", "f", ".pos", " = ", "vs[i]", ".pos", ";\n">>

\* the emission sequence of the text: the per-input-vertex loop runs over
\* vertex_in input vertices (1, 2, 3, 3), its body copies input vertex i and
\* emits the vertices of Emitted in that order, each output followed by its
\* emit call, and the end-of-primitive call is the only one, after every
\* emission and inside the eye loop where there is one
EmissionSequence ==
  LET out == gen.out
      u == gen.uid_data
      d == Depths(out)
      vloops == Pos(out, IsVertexLoopHead)
      eloops == Pos(out, IsEyeLoopHead)
      outputs == Pos(out, IsOutput)
      emits == Pos(out, IsEmitCall)
      ends == Pos(out, IsEndPrimitiveCall)
      copies == Pos(out, IsInputCopy)
      names == Emitted(u)
  IN  /\ Cardinality(vloops) = 1 /\ Cardinality(ends) = 1 /\ Cardinality(copies) = 1
      /\ \A v \in vloops : \A e \in ends :
           LET vend == ClosingOf(d, v)
               inloop == {k \in outputs : v < k /\ k < vend}
           IN  /\ out[v] = <<"\tfor (int i = 0; i < ",
                             ToString(IF u.primitive_type = Points THEN 1
                                      ELSE IF u.primitive_type = Lines THEN 2 ELSE 3),
                             "; ++i) ">>
               /\ \A c \in copies : v < c /\ \A k \in inloop : c < k
               /\ Cardinality(inloop) = Len(names)
               /\ Cardinality({k \in emits : v < k /\ k < vend}) = Len(names)
               /\ \A j \in 1..Len(names) : \E k \in inloop :
                    /\ IsOutputOf(out[k], names[j])
                    /\ Cardinality({i \in inloop : i < k}) = j - 1
                    /\ \E m \in emits :
                         /\ k < m /\ m < vend
                         /\ \A i \in inloop : i > k => m < i
               /\ \A m \in emits : m < e
               /\ vend < e
               /\ \A l \in eloops : l < v /\ e < ClosingOf(d, l)

\* the number of vertices one pass of the program over one layer emits: the
\* emissions of the loop body for each input vertex and those after the loop
EmittedPerLayer ==
  LET out == gen.out
      d == Depths(out)
      emits == Pos(out, IsEmitCall)
  IN  { LET vend == ClosingOf(d, v)
        IN  DecimalValue(out[v][2]) * Cardinality({k \in emits : v < k /\ k < vend})
              + Cardinality({k \in emits : vend < k})
        : v \in Pos(out, IsVertexLoopHead) }

PrimitiveVertices(u) ==
  IF u.primitive_type \in {Triangles, TriangleStrip} THEN 3 ELSE 4

\* C12 (as claimed): the emission sequence above, and one pass over one layer
\* emits 4 vertices for Points and Lines and the 3 input vertices, with no
\* added vertex, for Triangles and TriangleStrip.
C12_AsClaimed ==
  gen.called =>
    /\ EmissionSequence
    /\ EmittedPerLayer = {PrimitiveVertices(gen.uid_data)}

\* C12 (amended): the emission sequence above, and one pass over one layer
\* emits 4 vertices for Points and Lines and 3 for Triangles and TriangleStrip
\* with wireframe off; with wireframe on the closing vertex 'first' follows
\* them as one more vertex, before the end-of-primitive call.
C12_EmissionSequence ==
  gen.called =>
    /\ EmissionSequence
    /\ EmittedPerLayer =
         {PrimitiveVertices(gen.uid_data) + (IF gen.host_config.wireframe THEN 1 ELSE 0)}

C12_Witness ==
  /\ gen.called
  /\ gen.uid_data.primitive_type = Lines
  /\ gen.host_config.wireframe
  /\ gen.ApiType = "Vulkan"
  /\ EmittedPerLayer = {5}
  /\ Cardinality(Pos(gen.out, IsEmitCall)) = 3

----------------------------------------------------------------------------
(* C13 *)

\* the declaration of the layer field in the output interface
IsLayerDecl(c) ==
  c = <<"\tflat int layer;\n">> \/ c = <<"\tuint layer : SV_RenderTargetArrayIndex;\n">>

\* a statement that reads eye
IsEyeUse(c) ==
  \/ c = <<"\tps.layer = eye;\n">>
  \/ c = <<"\tgl_Layer = eye;\n">>
  \/ Len(c) = 5 /\ c[3] = "[eye] - "
  \/ c[1] = "\tfloat hoffset = (eye == 0) ? "

\* C13 (as claimed): for every combination of the vr, stereo and more_layers
\* flags, a text that reads eye or writes the layer field binds eye (by the
\* software loop or by the invocation identifier) and declares the layer
\* field in its output interface, both before the first such statement.
C13_EyeBoundBeforeUse ==
  gen.called =>
    LET out == gen.out
        uses == Pos(out, IsEyeUse)
        binds == Pos(out, IsEyeBinding) \cup Pos(out, IsEyeLoopHead)
        decls == Pos(out, IsLayerDecl)
    IN  uses # {} =>
          /\ binds # {} /\ decls # {}
          /\ \A k \in uses : \A b \in binds \cup decls : b < k

----------------------------------------------------------------------------
(* C14 *)

\* the statement of the Vulkan sub-mode that flips the Y coordinate
IsFlip(c) == c = <<"\tgl_Position.y = -gl_Position.y;\n">>

\* C14 (as claimed): the text generated for Vulkan is the text generated for
\* OpenGL from the same UID and host configuration with one flip statement
\* added per vertex emission and nothing else added, removed or changed.
C14_VulkanIsOpenGLPlusFlip ==
  (/\ gen.called /\ gen.ApiType = "Vulkan"
   /\ gen.pixel_lighting = g_ActiveConfig.bEnablePixelLighting
   /\ gen.has_bug = driver_bugs) =>
    /\ SelectSeq(gen.out, LAMBDA c : ~IsFlip(c)) =
         GenerateGeometryShaderCode("OpenGL", gen.host_config, gen.uid_data)
    /\ Cardinality(Pos(gen.out, IsFlip)) = Cardinality(Pos(gen.out, IsEmitCall))

----------------------------------------------------------------------------
(* C15 *)

\* a nudge of a texture coordinate of a corner (or line end) vertex
IsCornerNudge(c) ==
  Len(c) = 3 /\ c[1] \in {"\t\tr.tex", "\t\tll.tex", "\t\tlr.tex", "\t\tul.tex", "\t\tur.tex"}

\* the vertices whose texture coordinates the text nudges
NudgedVertices(out) == {out[k][1] : k \in Pos(out, IsCornerNudge)}

\* the bounds of the software eye loops of the text
EyeLoopBounds(out) == {out[k][2] : k \in Pos(out, IsEyeLoopHead)}

\* the emit and end-of-primitive calls of the text, with the outputs they
\* emit, in the order of the text
EmitOrder(out) ==
  SelectSeq(out, LAMBDA c : IsOutput(c) \/ IsEmitCall(c) \/ IsEndPrimitiveCall(c))

\* C15 (as claimed): for an OpenGL or HLSL target the avatar generator
\* declares the same vertex and layer counts, writes the same bound of the
\* software eye loop, nudges the same set of corner vertices and makes the
\* emit and end-of-primitive calls in the same order as
\* GenerateGeometryShaderCode does for a UID with one texture generator, the
\* same primitive type and the same host configuration.
C15_AvatarIsGeneralAlgorithm ==
  (avatar.called /\ avatar.ApiType \in {"OpenGL", "D3D"}) =>
    /\ DeclaredMaxVertices(avatar.out) = DeclaredMaxVertices(gen.out)
    /\ DeclaredInvocations(avatar.out) = DeclaredInvocations(gen.out)
    /\ EyeLoopBounds(avatar.out) = EyeLoopBounds(gen.out)
    /\ NudgedVertices(avatar.out) = NudgedVertices(gen.out)
    /\ EmitOrder(avatar.out) = EmitOrder(gen.out)

----------------------------------------------------------------------------
(* C16 *)

\* the number of trips of the software eye loop of a text; 1 where the text
\* has no such loop
EyeLoopTrips(out) ==
  LET heads == Pos(out, IsEyeLoopHead)
  IN  IF heads = {} THEN {1} ELSE {DecimalValue(out[l][2]) : l \in heads}

\* the number of vertices one invocation of a text emits: for every trip of
\* the eye loop, the emissions of the vertex loop body for each input vertex
\* and the emissions after that loop
EmittedPerInvocation(out) ==
  LET d == Depths(out)
      emits == Pos(out, IsEmitCall)
  IN  { LET vend == ClosingOf(d, v)
        IN  trips * (DecimalValue(out[v][2]) * Cardinality({k \in emits : v < k /\ k < vend})
                      + Cardinality({k \in emits : vend < k}))
        : v \in Pos(out, IsVertexLoopHead), trips \in EyeLoopTrips(out) }

\* a text declares one output bound and emits no more vertices than it
WithinDeclaredBound(out) ==
  LET declared == DeclaredMaxVertices(out)
      emitted == EmittedPerInvocation(out)
  IN  /\ Cardinality(declared) = 1
      /\ Cardinality(emitted) = 1
      /\ \A n \in emitted : \A bound \in declared : n <= bound

\* C16: one invocation of a generated program emits at most as many vertices
\* as the max_vertices / maxvertexcount the program declares, for the
\* programs of GenerateGeometryShaderCode and of
\* GenerateAvatarGeometryShaderCode alike.
C16_DeclaredBoundNotExceeded ==
  /\ gen.called => WithinDeclaredBound(gen.out)
  /\ avatar.called => WithinDeclaredBound(avatar.out)

C16_Witness ==
  /\ avatar.called
  /\ avatar.primitive_type = Points
  /\ avatar.host_config.wireframe
  /\ avatar.host_config.more_layers
  /\ ~avatar.host_config.stereo
  /\ ~avatar.host_config.backend_gs_instancing
  /\ EmittedPerInvocation(avatar.out) = {10}
  /\ DeclaredMaxVertices(avatar.out) = {15}
  /\ EmittedPerInvocation(gen.out) = {15}
  /\ DeclaredMaxVertices(gen.out) = {15}

----------------------------------------------------------------------------
(* C17 *)

\* a statement that changes the copied input vertex f
IsModifyF(c) == c[1] \in {"\tf.clipPos.x += ", "\tf.pos.x += "}

\* the host configuration of the generation agrees with the globals that
\* IsPassthrough reads
HostAgrees ==
  /\ gen.host_config.stereo = (g_ActiveConfig.iStereoMode > 0)
  /\ gen.host_config.wireframe = g_ActiveConfig.bWireFrame

\* the text is a pure pass-through: one layer, no binding of eye, no closing
\* vertex of wireframe, and the 3 input vertices emitted as they were copied
PurePassthrough ==
  LET out == gen.out
  IN  /\ layers(gen.host_config) = 1
      /\ Pos(out, IsEyeBinding) \cup Pos(out, IsEyeLoopHead) = {}
      /\ Pos(out, IsEyeUse) = {}
      /\ Pos(out, IsFirstDecl) \cup Pos(out, IsFirstRecord) = {}
      /\ EmittedPerInvocation(out) = {3}
      /\ \A k \in Pos(out, IsOutput) : IsOutputOf(out[k], "f")
      /\ Pos(out, IsModifyF) = {}

\* C17 (as claimed): IsPassthrough is true exactly for Triangles and
\* TriangleStrip with the global stereo mode and wireframe off, and when it is
\* true for the UID of a generation whose host configuration agrees with the
\* globals, the generated text is a pure pass-through.
C17_PassthroughPredicate ==
  gen.called =>
    /\ IsPassthrough(gen.uid_data) <=>
         /\ gen.uid_data.primitive_type \in {Triangles, TriangleStrip}
         /\ g_ActiveConfig.iStereoMode = 0
         /\ ~g_ActiveConfig.bWireFrame
    /\ (IsPassthrough(gen.uid_data) /\ HostAgrees) => PurePassthrough
====
